---- MODULE Spec2Model ----
(***************************************************************************)
(* Model of the charging-station client: the transport wrapper of          *)
(* src/api.py (api_get, api_post and the domain operations built on it)    *)
(* and the event handlers of src/user/main.py (login, logout and the       *)
(* status poller preview_callback driven by a 1 s QTimer).                 *)
(*                                                                         *)
(* TLA+ strings are ASCII here; the Chinese texts of the source are given  *)
(* in the comment next to the definition that stands for each of them.     *)
(***************************************************************************)
EXTENDS Integers, Sequences, FiniteSets, TLC

\* ------------------------------------------------------------------------
\* Bounds of the model
\* ------------------------------------------------------------------------
\* Largest number of handler tasks that are queued or running at one time.
MaxTasks == 2

\* ------------------------------------------------------------------------
\* Texts (src/api.py and src/user/main.py string literals)
\* ------------------------------------------------------------------------
MSG_CONNECT_TIMEOUT == "connect timed out"         \* '连接超时'
MSG_CONNECTION_ERROR == "connection error"         \* '连接错误'
MSG_READ_TIMEOUT == "read timed out"               \* '数据读取超时'
MSG_HTTP_ERROR == "Http error"                     \* 'Http错误'
MSG_NETWORK_ERROR == "network error"               \* '网络错误'
MSG_USE_USER_ACCOUNT == "use a user account"       \* "请使用用户账号"
MSG_LOGIN_OK == "login succeeded"                  \* "登陆成功"
MSG_LOGOUT_OK == "logged out"                      \* "成功注销"
MSG_CHARGE_DONE == "charging finished, see bill"   \* "充电结束 请查询详单"
MSG_REGISTER_OK == "registered"                    \* "注册成功"
MSG_QUERY_OK == "query succeeded"                  \* "查询成功"
MSG_SUBMIT_OK == "request submitted"               \* "请求提交成功"
MSG_EDIT_OK == "request edited"                    \* "修改充电请求成功"
MSG_END_OK == "request ended"                      \* "已结束请求"
LABEL_FAST == "fast charge"                        \* '快充'

TXT_ROLE_NONE == "none"                            \* '无'
TXT_LOGGED_IN == "logged in"                       \* '已登陆'
TXT_LOGGED_OUT == "not logged in"                  \* '未登陆'
TXT_NOTCHARGING == "no charging request"           \* '没有充电请求'
TXT_WAITINGSTAGE1 == "waiting in waiting area"     \* '在等候区等待'
TXT_WAITINGSTAGE2 == "waiting in charging area"    \* '在充电区等待'
TXT_CHARGING == "charging"                         \* '正在充电'
TXT_CHANGEMODEREQUEUE == "mode changed, requeued"  \* '充电模式更改 重新排队'
TXT_FAULTREQUEUE == "pile fault"                   \* '充电桩故障'
\* Text a label shows before any handler has written it (the widget tree
\* built by mainwindow.create_window()).
TXT_DEFAULT == "ui default"

\* The six ChargingStatus variants the server reports in cur_state.
Variants ==
  {"NOTCHARGING", "WAITINGSTAGE1", "WAITINGSTAGE2", "CHARGING",
   "CHANGEMODEREQUEUE", "FAULTREQUEUE"}

\* ------------------------------------------------------------------------
\* Values on the wire
\* ------------------------------------------------------------------------
\* The data field of an envelope.  One record shape serves every endpoint;
\* null = TRUE is JSON null (Python None), the other fields are then unused.
NullData ==
  [null |-> TRUE, token |-> "", is_admin |-> FALSE, queue_len |-> -1,
   charge_id |-> "", cur_state |-> "NOTCHARGING", datetime |-> "",
   bills |-> <<>>]

LoginData(tok, adm) == [NullData EXCEPT !.null = FALSE, !.token = tok, !.is_admin = adm]
PreviewData(q, id, st) ==
  [NullData EXCEPT !.null = FALSE, !.queue_len = q, !.charge_id = id, !.cur_state = st]
TimeData(dt) == [NullData EXCEPT !.null = FALSE, !.datetime = dt]
\* query_bill: the list of bills, each stood for by its bill_id.
BillData(ids) == [NullData EXCEPT !.null = FALSE, !.bills = ids]

\* What one requests.get/post(...).json() does: exc is the class of the
\* exception it raises ("" when it returns), otherwise it returns a dict with
\* the keys in keys.
Raises(e) ==
  [exc |-> e, keys |-> {}, code |-> 0, message |-> "", data |-> NullData]
Envelope(ks, c, m, d) ==
  [exc |-> "", keys |-> ks, code |-> c, message |-> m, data |-> d]
AllKeys == {"code", "message", "data"}

\* ------------------------------------------------------------------------
\* requests.exceptions class hierarchy (direct bases), as far as the
\* except-chain of api_get/api_post can tell classes apart.
\* ------------------------------------------------------------------------
ExcClasses ==
  {"ConnectTimeout", "ConnectionError", "ProxyError", "SSLError", "ReadTimeout",
   "Timeout", "HTTPError", "TooManyRedirects", "JSONDecodeError",
   "RequestException", "KeyboardInterrupt", "BaseException"}

Bases(c) ==
  CASE c = "ConnectTimeout" -> {"ConnectionError", "Timeout"}
    [] c = "ConnectionError" -> {"RequestException"}
    [] c = "ProxyError" -> {"ConnectionError"}
    [] c = "SSLError" -> {"ConnectionError"}
    [] c = "ReadTimeout" -> {"Timeout"}
    [] c = "Timeout" -> {"RequestException"}
    [] c = "HTTPError" -> {"RequestException"}
    [] c = "TooManyRedirects" -> {"RequestException"}
    [] c = "JSONDecodeError" -> {"RequestException"}
    [] c = "RequestException" -> {"BaseException"}
    [] c = "KeyboardInterrupt" -> {"BaseException"}
    [] OTHER -> {}

RECURSIVE IsSubclass(_, _)
IsSubclass(c, d) == c = d \/ \E b \in Bases(c) : IsSubclass(b, d)

\* ------------------------------------------------------------------------
\* Transport wrapper (src/api.py)
\* ------------------------------------------------------------------------
\* Outcome of a call as its caller sees it: a returned payload ("ok"), an
\* ApiError carrying msg, or any other exception of class exc ("raise").
Ok(d) == [kind |-> "ok", msg |-> "", data |-> d, exc |-> ""]
ApiError(m) == [kind |-> "ApiError", msg |-> m, data |-> NullData, exc |-> "ApiError"]
Raise(e) == [kind |-> "raise", msg |-> "", data |-> NullData, exc |-> e]

\* The except clauses in source order.
HandlersSwapped ==
  << <<"ConnectionError", MSG_CONNECTION_ERROR>>,
     <<"ConnectTimeout", MSG_CONNECT_TIMEOUT>>,
     <<"ReadTimeout", MSG_READ_TIMEOUT>>,
     <<"HTTPError", MSG_HTTP_ERROR>>,
     <<"BaseException", MSG_NETWORK_ERROR>> >>
Handlers ==
  << <<"ConnectTimeout", MSG_CONNECT_TIMEOUT>>,
     <<"ConnectionError", MSG_CONNECTION_ERROR>>,
     <<"ReadTimeout", MSG_READ_TIMEOUT>>,
     <<"HTTPError", MSG_HTTP_ERROR>>,
     <<"BaseException", MSG_NETWORK_ERROR>> >>

\* Python runs the first except clause whose class the exception is an
\* instance of.
RECURSIVE FirstHandler(_, _)
FirstHandler(e, i) ==
  IF i > Len(Handlers) THEN Raise(e)
  ELSE IF IsSubclass(e, Handlers[i][1]) THEN ApiError(Handlers[i][2])
  ELSE FirstHandler(e, i + 1)

\* Lines 64-66 / 98-100: resp['code'], resp['message'] are subscripts (a
\* missing key raises KeyError outside the try block), resp.get('data') is
\* None for a missing key.
DecodeEnvelopeNegative(resp) ==
  IF "code" \notin resp.keys THEN Raise("KeyError")
  ELSE IF resp.code < 0
    THEN IF "message" \notin resp.keys THEN Raise("KeyError")
         ELSE ApiError(resp.message)
  ELSE Ok(IF "data" \in resp.keys THEN resp.data ELSE NullData)
DecodeEnvelope(resp) ==
  IF "code" \notin resp.keys THEN Raise("KeyError")
  ELSE IF resp.code = -1
    THEN IF "message" \notin resp.keys THEN Raise("KeyError")
         ELSE ApiError(resp.message)
  ELSE Ok(IF "data" \in resp.keys THEN resp.data ELSE NullData)

\* api_get / api_post after the request has been issued: w is what the
\* transport did.
ApiCall(w) ==
  IF w.exc # "" THEN FirstHandler(w.exc, 1) ELSE DecodeEnvelope(w)

\* The Authorization header of a request: present iff len(TOKEN) > 0.
AuthHeaderAlways(token) == <<"Bearer", token>>
AuthHeader(token) == IF token # "" THEN <<"Bearer", token>> ELSE <<>>

\* A request as it leaves the client; body holds the JSON fields of a POST
\* that the handlers compute, as <<key, value>> pairs in source order.
RequestWithBody(method, path, token, body) ==
  [method |-> method, path |-> path, auth |-> AuthHeader(token), body |-> body]
Request(method, path, token) == RequestWithBody(method, path, token, <<>>)

\* Domain operations that subscript the payload: a null payload raises
\* TypeError in the operation itself.
ApiLogin(w) ==
  LET r == ApiCall(w) IN
  IF r.kind = "ok" /\ r.data.null THEN Raise("TypeError") ELSE r
ApiTime(w) ==
  LET r == ApiCall(w) IN
  IF r.kind = "ok" /\ r.data.null THEN Raise("TypeError") ELSE r
ApiPreviewQueue(w) == ApiCall(w)

\* ------------------------------------------------------------------------
\* Poller decisions (src/user/main.py preview_callback)
\* ------------------------------------------------------------------------
\* Line 115: the tick returns at once when the token is empty.
TickSkipsNever(token) == FALSE
TickSkips(token) == token = ""

\* Lines 119-121 and 124-126: the except branches show the message and
\* return; the failed call req is not issued again.
RetryOnFailureOnce(req) == <<req>>
RetryOnFailure(req) == <<>>

\* Lines 48-53: on_logout_clicked does not assign last_state.
LastStateOnLogoutReset(ls) == 0
LastStateOnLogout(ls) == ls

\* Lines 119-121 and 124-126: ... and last_state is not assigned.
LastStateOnFailureReset(ls) == 0
LastStateOnFailure(ls) == ls

\* Lines 138-153: the status text of a variant; any other cur_state leaves
\* the label as it is.
StatusText(st, old) ==
  CASE st = "NOTCHARGING" -> TXT_NOTCHARGING
    [] st = "WAITINGSTAGE1" -> TXT_WAITINGSTAGE1
    [] st = "WAITINGSTAGE2" -> TXT_WAITINGSTAGE2
    [] st = "CHARGING" -> TXT_CHARGING
    [] st = "CHANGEMODEREQUEUE" -> TXT_CHANGEMODEREQUEUE
    [] st = "FAULTREQUEUE" -> TXT_FAULTREQUEUE
    [] OTHER -> old

\* Lines 140-141: the completion toast is shown when NOTCHARGING is observed
\* with last_state == 1.
NotifiesOnEveryNotCharging(ls, st) == st = "NOTCHARGING"
Notifies(ls, st) == st = "NOTCHARGING" /\ ls = 1

\* Lines 142 and 149: last_state is set to 1 on CHARGING, to 0 together with
\* the completion toast, and is left alone otherwise.
NextLastStateNoReset(ls, st) ==
  IF st = "CHARGING" THEN 1 ELSE ls
NextLastStateLatestVariant(ls, st) ==
  IF st = "CHARGING" THEN 1 ELSE 0
NextLastState(ls, st) ==
  IF st = "CHARGING" THEN 1
  ELSE IF st = "NOTCHARGING" /\ ls = 1 THEN 0
  ELSE ls

\* Lines 128-131: f"前有{queue_len}人", or '' for the sentinel -1.  The text
\* is kept as the sequence of its parts.
QueueText(q) == IF q # -1 THEN <<"ahead", q, "people">> ELSE <<>>

\* Lines 133-134: the request id label is written only for a truthy id.
RequestIdText(id, old) == IF id # "" THEN id ELSE old

\* ------------------------------------------------------------------------
\* Charge mode encoding (src/user/main.py on_submit_clicked lines 159-163,
\* on_edit_request_clicked lines 175-179)
\* ------------------------------------------------------------------------
ModeCodeFastUnlessSlow(mode_text) == IF mode_text = "slow charge" THEN "T" ELSE "F"
ModeCode(mode_text) == IF mode_text = LABEL_FAST THEN "F" ELSE "T"

\* What the user has typed when a handler reads its line edits.
AMOUNT_TEXT == "50"
BATTERY_TEXT == "60"
USERNAME_TEXT == "alice"
PASSWORD_TEXT == "secret"

\* ------------------------------------------------------------------------
\* Login decision (src/user/main.py on_login_clicked)
\* ------------------------------------------------------------------------
\* Lines 26-29: a reply with a truthy is_admin is refused and the handler
\* returns before api.TOKEN is assigned.
RejectsLoginNever(is_admin) == FALSE
RejectsLogin(is_admin) == is_admin

\* ------------------------------------------------------------------------
\* Scheduling (qasync event loop, QTimer)
\* ------------------------------------------------------------------------
\* api_get and api_post contain no await expression and call the blocking
\* requests.get / requests.post, so a coroutine that awaits them never hands
\* control back to the event loop: a handler runs from its first line to its
\* return while every other handler and the timer wait.
AwaitYieldsAsync == TRUE
AwaitYields == FALSE

\* ------------------------------------------------------------------------
\* State
\* ------------------------------------------------------------------------
VARIABLES
  TOKEN,       \* api.TOKEN, the session token ('' = unauthenticated)
  last_state,  \* main.last_state, the poller's stored flag
  window,      \* the texts of the labels the handlers write
  tasks,       \* handler coroutines created by asyncSlot, oldest first
  act,         \* name of the step taken last
  toasts,      \* QToaster messages shown by the step taken last
  reqs,        \* HTTP requests issued by the step taken last
  hist,        \* the latest successful tick: variant observed, toasts shown
  session,     \* token of the latest accepted login not yet logged out
  api_in,      \* transport wrapper exercised alone: the call made last
  api_out      \* ... and what it gave back to its caller

vars ==
  <<TOKEN, last_state, window, tasks, act, toasts, reqs, hist, session,
    api_in, api_out>>

\* A handler task: which slot it runs, where it stands, the payload it holds
\* while it waits for its second call (data), the mode label it read from the
\* combo box (text) and the paths it has requested so far (sent).
Task(kind) ==
  [kind |-> kind, pc |-> "start", data |-> NullData, text |-> "", sent |-> <<>>]

RemoveAt(s, i) == SubSeq(s, 1, i - 1) \o SubSeq(s, i + 1, Len(s))

Last(s) == s[Len(s)]

InFlight(t) == t.pc # "start"

\* Task i may take its next step: every other task either has not started
\* and is behind it in the loop's ready queue, or is parked at an await that
\* yielded.
Runnable(i) ==
  /\ i \in 1..Len(tasks)
  /\ \A j \in 1..Len(tasks) :
       j # i =>
         \/ ~InFlight(tasks[j]) /\ (j > i \/ InFlight(tasks[i]))
         \/ InFlight(tasks[j]) /\ AwaitYields

NoCall ==
  [method |-> "", path |-> "", json |-> <<>>, token |-> "", wire |-> Raises("")]
NoResult == [request |-> Request("", "", ""), result |-> Ok(NullData)]

\* obs, notes: the variant the latest successful tick observed and the number
\* of completion toasts it showed; prevNotes: the completion toasts of the
\* successful tick before it when that tick observed the same variant, else
\* 0; seen, now: the preview payload and the server time the latest
\* successful tick received; armed: a successful tick has observed CHARGING
\* and no completion toast has been shown since.
NoHist ==
  [obs |-> "NONE", notes |-> 0, prevNotes |-> 0,
   seen |-> NullData, now |-> "", armed |-> FALSE]

IsCompletion(m) == m = MSG_CHARGE_DONE

InitWindow ==
  [queue_position_label |-> <<TXT_DEFAULT>>,
   request_id_label |-> TXT_DEFAULT,
   time_label |-> TXT_DEFAULT,
   status_label |-> TXT_DEFAULT,
   user_role_label |-> TXT_DEFAULT,
   user_state_label |-> TXT_DEFAULT,
   bill_table |-> [rowCount |-> 0, items |-> <<>>]]

Init ==
  /\ TOKEN = ""
  /\ last_state = 0
  /\ window = InitWindow
  /\ tasks = <<>>
  /\ act = "init"
  /\ toasts = <<>>
  /\ reqs = <<>>
  /\ hist = NoHist
  /\ session = ""
  /\ api_in = NoCall
  /\ api_out = NoResult

\* ------------------------------------------------------------------------
\* What the server and the network may answer (inputs of the model)
\* ------------------------------------------------------------------------
Tokens == {"tokA"}
\* Credentials the server issues to administrator accounts.
AdminTokens == {"admA"}
ServerMessages == {"msgA", "msgB"}
\* queue_len and charge_id of a preview payload: the sentinel or a position,
\* no request id or one; any combination with any variant.
QueueLens == {-1, 2}
ChargeIds == {"", "F1"}
DateTimes == {"12:00"}

LoginWire ==
  {Raises("ConnectionError"), Envelope(AllKeys, -1, "msgA", NullData),
   Envelope(AllKeys, 0, "", NullData)}
  \cup {Envelope(AllKeys, 0, "", LoginData(t, FALSE)) : t \in Tokens \cup {""}}
  \cup {Envelope(AllKeys, 0, "", LoginData(t, TRUE)) : t \in AdminTokens}

PreviewWire ==
  {Raises("ConnectTimeout"), Envelope(AllKeys, -1, "msgA", NullData),
   Envelope({"message", "data"}, 0, "", NullData),
   Envelope(AllKeys, 0, "", NullData)}
  \cup {Envelope(AllKeys, 0, "", PreviewData(q, id, st)) :
          q \in QueueLens, id \in ChargeIds, st \in Variants}

TimeWire ==
  {Raises("ReadTimeout"), Envelope(AllKeys, -1, "msgB", NullData),
   Envelope(AllKeys, 0, "", NullData)}
  \cup {Envelope(AllKeys, 0, "", TimeData(dt)) : dt \in DateTimes}

\* ------------------------------------------------------------------------
\* Events: the timer fires, a button is clicked (main.py lines 199-209).
\* asyncSlot wraps the coroutine in a task; it runs when the loop is free.
\* ------------------------------------------------------------------------
Enqueue(kind, name) ==
  /\ Len(tasks) < MaxTasks
  /\ tasks' = Append(tasks, Task(kind))
  /\ act' = name
  /\ toasts' = <<>>
  /\ reqs' = <<>>
  /\ UNCHANGED <<TOKEN, last_state, window, hist, session, api_in, api_out>>

TimerFire == Enqueue("tick", "TimerFire")
ClickLogin == Enqueue("login", "ClickLogin")
ClickLogout == Enqueue("logout", "ClickLogout")

\* ------------------------------------------------------------------------
\* on_login_clicked (main.py lines 19-35)
\* ------------------------------------------------------------------------
LoginStart(i) ==
  /\ Runnable(i)
  /\ tasks[i].kind = "login" /\ tasks[i].pc = "start"
  /\ tasks' = [tasks EXCEPT ![i].pc = "login", ![i].sent = Append(@, "/login")]
  /\ reqs' = <<RequestWithBody("POST", "/login", TOKEN,
                               << <<"username", USERNAME_TEXT>>,
                                  <<"password", PASSWORD_TEXT>> >>)>>
  /\ toasts' = <<>>
  /\ act' = "LoginStart"
  /\ UNCHANGED <<TOKEN, last_state, window, hist, session, api_in, api_out>>

LoginReply(i, w) ==
  /\ Runnable(i)
  /\ tasks[i].kind = "login" /\ tasks[i].pc = "login"
  /\ LET r == ApiLogin(w) IN
       /\ tasks' = RemoveAt(tasks, i)
       /\ reqs' = <<>>
       /\ CASE r.kind = "ApiError" ->
                 /\ toasts' = <<r.msg>>
                 /\ act' = "LoginFailed"
                 /\ UNCHANGED <<TOKEN, window, session>>
            [] r.kind = "raise" ->
                 /\ toasts' = <<>>
                 /\ act' = "LoginRaised"
                 /\ UNCHANGED <<TOKEN, window, session>>
            [] r.kind = "ok" /\ RejectsLogin(r.data.is_admin) ->
                 /\ toasts' = <<MSG_USE_USER_ACCOUNT>>
                 /\ act' = "LoginAdminRejected"
                 /\ UNCHANGED <<TOKEN, window, session>>
            [] OTHER ->
                 /\ TOKEN' = r.data.token
                 /\ window' = [window EXCEPT !.user_role_label = "USER",
                                             !.user_state_label = TXT_LOGGED_IN]
                 /\ toasts' = <<MSG_LOGIN_OK>>
                 /\ session' = r.data.token
                 /\ act' = "LoginOk"
  /\ UNCHANGED <<last_state, hist, api_in, api_out>>

\* ------------------------------------------------------------------------
\* on_logout_clicked (main.py lines 48-53)
\* ------------------------------------------------------------------------
Logout(i) ==
  /\ Runnable(i)
  /\ tasks[i].kind = "logout" /\ tasks[i].pc = "start"
  /\ tasks' = RemoveAt(tasks, i)
  /\ TOKEN' = ""
  /\ window' = [window EXCEPT !.user_role_label = TXT_ROLE_NONE,
                              !.user_state_label = TXT_LOGGED_OUT]
  /\ toasts' = <<MSG_LOGOUT_OK>>
  /\ reqs' = <<>>
  /\ session' = ""
  /\ last_state' = LastStateOnLogout(last_state)
  /\ act' = "Logout"
  /\ UNCHANGED <<hist, api_in, api_out>>

\* ------------------------------------------------------------------------
\* preview_callback (main.py lines 112-153)
\* ------------------------------------------------------------------------
\* Lines 115-118: skip when unauthenticated, else issue GET preview_queue.
TickStart(i) ==
  /\ Runnable(i)
  /\ tasks[i].kind = "tick" /\ tasks[i].pc = "start"
  /\ toasts' = <<>>
  /\ IF TickSkips(TOKEN)
       THEN /\ tasks' = RemoveAt(tasks, i)
            /\ reqs' = <<>>
            /\ act' = "TickSkipped"
       ELSE /\ tasks' = [tasks EXCEPT ![i].pc = "preview",
                                      ![i].sent = Append(@, "/user/preview_queue")]
            /\ reqs' = <<Request("GET", "/user/preview_queue", TOKEN)>>
            /\ act' = "TickStart"
  /\ UNCHANGED <<TOKEN, last_state, window, hist, session, api_in, api_out>>

\* A tick that ends in an except branch (ApiError: toast and return) or with
\* an exception no clause of the handler catches.
TickFails(i, r, name) ==
  /\ tasks' = RemoveAt(tasks, i)
  /\ toasts' = IF r.kind = "ApiError" THEN <<r.msg>> ELSE <<>>
  /\ reqs' = RetryOnFailure(Request("GET", Last(tasks[i].sent), TOKEN))
  /\ last_state' = LastStateOnFailure(last_state)
  /\ act' = name
  /\ UNCHANGED <<TOKEN, window, hist, session, api_in, api_out>>

\* Lines 118-123: the preview reply arrives; on success GET /time is issued.
TickPreviewReply(i, w) ==
  /\ Runnable(i)
  /\ tasks[i].kind = "tick" /\ tasks[i].pc = "preview"
  /\ LET r == ApiPreviewQueue(w) IN
       IF r.kind = "ok"
         THEN /\ tasks' = [tasks EXCEPT ![i].pc = "time", ![i].data = r.data,
                                        ![i].sent = Append(@, "/time")]
              /\ reqs' = <<Request("GET", "/time", TOKEN)>>
              /\ toasts' = <<>>
              /\ act' = "TickPreviewOk"
              /\ UNCHANGED <<TOKEN, last_state, window, hist, session, api_in, api_out>>
         ELSE TickFails(i, r, "TickPreviewFailed")

\* Lines 123-153: the time reply arrives; on success the labels are written,
\* the completion toast is decided and last_state is updated.
TickTimeReply(i, w) ==
  /\ Runnable(i)
  /\ tasks[i].kind = "tick" /\ tasks[i].pc = "time"
  /\ LET r == ApiTime(w)
         d == tasks[i].data
     IN
       IF r.kind # "ok" THEN TickFails(i, r, "TickTimeFailed")
       ELSE IF d.null
         \* line 128: data['queue_len'] on None raises TypeError
         THEN TickFails(i, Raise("TypeError"), "TickRenderRaised")
       ELSE
         /\ tasks' = RemoveAt(tasks, i)
         /\ reqs' = <<>>
         /\ window' = [window EXCEPT
                         !.queue_position_label = QueueText(d.queue_len),
                         !.request_id_label = RequestIdText(d.charge_id, @),
                         !.time_label = r.data.datetime,
                         !.status_label = StatusText(d.cur_state, @)]
         /\ toasts' = IF Notifies(last_state, d.cur_state)
                        THEN <<MSG_CHARGE_DONE>> ELSE <<>>
         /\ hist' = [obs |-> d.cur_state,
                     notes |-> Len(SelectSeq(toasts', IsCompletion)),
                     prevNotes |-> IF hist.obs = d.cur_state THEN hist.notes ELSE 0,
                     seen |-> d,
                     now |-> r.data.datetime,
                     armed |-> IF d.cur_state = "CHARGING" THEN TRUE
                               ELSE IF toasts' # <<>> THEN FALSE
                               ELSE hist.armed]
         /\ last_state' = NextLastState(last_state, d.cur_state)
         /\ act' = "TickOk"
         /\ UNCHANGED <<TOKEN, session, api_in, api_out>>

\* ------------------------------------------------------------------------
\* The transport wrapper exercised alone: api_get / api_post called with the
\* current token against every behaviour of the transport.
\* ------------------------------------------------------------------------
Codes == {-2, -1, 0, 1}
Paths == {"/time", "/user/register"}

ApiWire ==
  {Raises(e) : e \in ExcClasses}
  \cup {Envelope(ks, c, m, d) :
          ks \in SUBSET AllKeys, c \in Codes, m \in ServerMessages,
          d \in {NullData, TimeData("12:00")}}

\* What a caller passes as json: nothing (api_get has no such argument), or
\* the fields of api.register.
Bodies ==
  {<<>>,
   << <<"username", USERNAME_TEXT>>, <<"password", PASSWORD_TEXT>>,
      <<"re_password", PASSWORD_TEXT>> >>}

ApiInvoke(method, path, json, w) ==
  /\ api_in' = [method |-> method, path |-> path, json |-> json,
                token |-> TOKEN, wire |-> w]
  /\ api_out' = [request |-> RequestWithBody(method, path, TOKEN, json),
                 result |-> ApiCall(w)]
  /\ act' = method
  /\ UNCHANGED <<TOKEN, last_state, window, tasks, toasts, reqs, hist, session>>

\* api_get (src/api.py lines 69-100)
ApiGet(path, w) == ApiInvoke("GET", path, <<>>, w)
\* api_post (src/api.py lines 34-66)
ApiPost(path, json, w) == ApiInvoke("POST", path, json, w)

\* The wrapper is called in a fresh process or after a login has stored a
\* token.
InitApi ==
  /\ TOKEN \in Tokens \cup {""}
  /\ session = TOKEN
  /\ last_state = 0
  /\ window = IF TOKEN = "" THEN InitWindow
              ELSE [InitWindow EXCEPT !.user_role_label = "USER",
                                      !.user_state_label = TXT_LOGGED_IN]
  /\ tasks = <<>>
  /\ act = "init"
  /\ toasts = <<>>
  /\ reqs = <<>>
  /\ hist = NoHist
  /\ api_in = NoCall
  /\ api_out = NoResult

NextApi ==
  \/ \E path \in Paths : \E w \in ApiWire : ApiGet(path, w)
  \/ \E path \in Paths : \E json \in Bodies : \E w \in ApiWire :
       ApiPost(path, json, w)

SpecApi == InitApi /\ [][NextApi]_vars

\* ------------------------------------------------------------------------
\* The other button handlers (main.py lines 38-45, 56-78, 156-194)
\* ------------------------------------------------------------------------
\* The labels the combo box can show when a handler reads it.
ModeLabels == {LABEL_FAST, "slow charge", ""}   \* '快充', '慢充', no selection

\* A handler that makes one call: its first line up to the call.
CallStart(i, kind, req, label, name) ==
  /\ Runnable(i)
  /\ tasks[i].kind = kind /\ tasks[i].pc = "start"
  /\ tasks' = [tasks EXCEPT ![i].pc = "call", ![i].text = label,
                            ![i].sent = Append(@, req.path)]
  /\ reqs' = <<req>>
  /\ toasts' = <<>>
  /\ act' = name \o "Start"
  /\ UNCHANGED <<TOKEN, last_state, window, hist, session, api_in, api_out>>

\* ... and from the reply to its return: the except branch shows the error,
\* otherwise the success toast is shown; the payload is not used.
CallReply(i, w, kind, okMsg, name) ==
  /\ Runnable(i)
  /\ tasks[i].kind = kind /\ tasks[i].pc = "call"
  /\ LET r == ApiCall(w) IN
       /\ tasks' = RemoveAt(tasks, i)
       /\ reqs' = <<>>
       /\ toasts' = CASE r.kind = "ApiError" -> <<r.msg>>
                      [] r.kind = "raise" -> <<>>
                      [] OTHER -> <<okMsg>>
       /\ act' = name \o (CASE r.kind = "ApiError" -> "Failed"
                            [] r.kind = "raise" -> "Raised"
                            [] OTHER -> "Ok")
  /\ UNCHANGED <<TOKEN, last_state, window, hist, session, api_in, api_out>>

\* on_register_clicked (lines 38-45), api.register (api.py lines 113-118)
RegisterStart(i) ==
  CallStart(i, "register",
            RequestWithBody("POST", "/user/register", TOKEN,
                            << <<"username", USERNAME_TEXT>>,
                               <<"password", PASSWORD_TEXT>>,
                               <<"re_password", PASSWORD_TEXT>> >>),
            "", "Register")
RegisterReply(i, w) == CallReply(i, w, "register", MSG_REGISTER_OK, "Register")

\* on_submit_clicked (lines 156-169), api.submit_charging_request
SubmitStart(i, mode_text) ==
  CallStart(i, "submit",
            RequestWithBody("POST", "/user/submit_charging_request", TOKEN,
                            << <<"charge_mode", ModeCode(mode_text)>>,
                               <<"require_amount", AMOUNT_TEXT>>,
                               <<"battery_size", BATTERY_TEXT>> >>),
            mode_text, "Submit")
SubmitReply(i, w) == CallReply(i, w, "submit", MSG_SUBMIT_OK, "Submit")

\* on_edit_request_clicked (lines 172-184), api.edit_charging_request
EditStart(i, mode_text) ==
  CallStart(i, "edit",
            RequestWithBody("POST", "/user/edit_charging_request", TOKEN,
                            << <<"charge_mode", ModeCode(mode_text)>>,
                               <<"require_amount", AMOUNT_TEXT>> >>),
            mode_text, "Edit")
EditReply(i, w) == CallReply(i, w, "edit", MSG_EDIT_OK, "Edit")

\* on_end_request_clicked (lines 187-194), api.end_charging_request
EndStart(i) ==
  CallStart(i, "end", Request("GET", "/user/end_charging_request", TOKEN),
            "", "End")
EndReply(i, w) == CallReply(i, w, "end", MSG_END_OK, "End")

\* on_checklist_clicked (lines 56-78): api.time(), then api.query_bill(dt),
\* both in one try block; the table is cleared and filled row by row.
ChecklistStart(i) ==
  /\ Runnable(i)
  /\ tasks[i].kind = "checklist" /\ tasks[i].pc = "start"
  /\ tasks' = [tasks EXCEPT ![i].pc = "cl_time", ![i].sent = Append(@, "/time")]
  /\ reqs' = <<Request("GET", "/time", TOKEN)>>
  /\ toasts' = <<>>
  /\ act' = "ChecklistStart"
  /\ UNCHANGED <<TOKEN, last_state, window, hist, session, api_in, api_out>>

ChecklistEnds(i, r, name) ==
  /\ tasks' = RemoveAt(tasks, i)
  /\ reqs' = <<>>
  /\ toasts' = IF r.kind = "ApiError" THEN <<r.msg>> ELSE <<>>
  /\ act' = name
  /\ UNCHANGED <<TOKEN, last_state, hist, session, api_in, api_out>>

ChecklistTimeReply(i, w) ==
  /\ Runnable(i)
  /\ tasks[i].kind = "checklist" /\ tasks[i].pc = "cl_time"
  /\ LET r == ApiTime(w) IN
       IF r.kind = "ok"
         THEN /\ tasks' = [tasks EXCEPT ![i].pc = "cl_bill", ![i].data = r.data,
                                        ![i].sent = Append(@, "/user/query_bill")]
              /\ reqs' = <<RequestWithBody("POST", "/user/query_bill", TOKEN,
                                           << <<"date", r.data.datetime>> >>)>>
              /\ toasts' = <<>>
              /\ act' = "ChecklistTimeOk"
              /\ UNCHANGED <<TOKEN, last_state, window, hist, session, api_in, api_out>>
         ELSE ChecklistEnds(i, r, "ChecklistTimeFailed") /\ UNCHANGED window

\* Lines 65-77: clearContents() empties the cells and keeps the row count;
\* setRowCount(i + 1) runs once per bill, so an empty list leaves the count.
FillTable(table, ids) ==
  [rowCount |-> IF Len(ids) > 0 THEN Len(ids) ELSE table.rowCount, items |-> ids]

ChecklistBillReply(i, w) ==
  /\ Runnable(i)
  /\ tasks[i].kind = "checklist" /\ tasks[i].pc = "cl_bill"
  /\ LET r == ApiCall(w) IN
       IF r.kind # "ok"
         THEN ChecklistEnds(i, r, "ChecklistBillFailed") /\ UNCHANGED window
       ELSE IF r.data.null
         \* line 66: len(None) raises TypeError after the table was cleared
         THEN /\ ChecklistEnds(i, Raise("TypeError"), "ChecklistRaised")
              /\ window' = [window EXCEPT !.bill_table.items = <<>>]
       ELSE /\ tasks' = RemoveAt(tasks, i)
            /\ reqs' = <<>>
            /\ window' = [window EXCEPT !.bill_table = FillTable(@, r.data.bills)]
            /\ toasts' = <<MSG_QUERY_OK>>
            /\ act' = "ChecklistOk"
            /\ UNCHANGED <<TOKEN, last_state, hist, session, api_in, api_out>>

ClickRegister == Enqueue("register", "ClickRegister")
ClickSubmit == Enqueue("submit", "ClickSubmit")
ClickEdit == Enqueue("edit", "ClickEdit")
ClickEnd == Enqueue("end", "ClickEnd")
ClickChecklist == Enqueue("checklist", "ClickChecklist")

\* What the server may answer to a call whose payload the handler ignores
\* (refusal, a reply without code, success), and to query_bill (refusal, no
\* payload, no bill, two bills).
VoidWire ==
  {Envelope(AllKeys, -1, "msgA", NullData),
   Envelope({"message", "data"}, 0, "", NullData),
   Envelope(AllKeys, 0, "", NullData)}
BillWire ==
  {Envelope(AllKeys, -1, "msgA", NullData),
   Envelope(AllKeys, 0, "", NullData),
   Envelope(AllKeys, 0, "", BillData(<<>>)),
   Envelope(AllKeys, 0, "", BillData(<<"b1", "b2">>))}

\* ------------------------------------------------------------------------
\* The program: the timer and the seven connected buttons (lines 199-209)
\* ------------------------------------------------------------------------
Next ==
  \/ TimerFire
  \/ ClickLogin
  \/ ClickLogout
  \/ ClickRegister
  \/ ClickSubmit
  \/ ClickEdit
  \/ ClickEnd
  \/ ClickChecklist
  \/ \E i \in 1..Len(tasks) : LoginStart(i)
  \/ \E i \in 1..Len(tasks) : \E w \in LoginWire : LoginReply(i, w)
  \/ \E i \in 1..Len(tasks) : Logout(i)
  \/ \E i \in 1..Len(tasks) : TickStart(i)
  \/ \E i \in 1..Len(tasks) : \E w \in PreviewWire : TickPreviewReply(i, w)
  \/ \E i \in 1..Len(tasks) : \E w \in TimeWire : TickTimeReply(i, w)
  \/ \E i \in 1..Len(tasks) : RegisterStart(i)
  \/ \E i \in 1..Len(tasks) : \E w \in VoidWire : RegisterReply(i, w)
  \/ \E i \in 1..Len(tasks) : \E m \in ModeLabels : SubmitStart(i, m)
  \/ \E i \in 1..Len(tasks) : \E w \in VoidWire : SubmitReply(i, w)
  \/ \E i \in 1..Len(tasks) : \E m \in ModeLabels : EditStart(i, m)
  \/ \E i \in 1..Len(tasks) : \E w \in VoidWire : EditReply(i, w)
  \/ \E i \in 1..Len(tasks) : EndStart(i)
  \/ \E i \in 1..Len(tasks) : \E w \in VoidWire : EndReply(i, w)
  \/ \E i \in 1..Len(tasks) : ChecklistStart(i)
  \/ \E i \in 1..Len(tasks) : \E w \in TimeWire : ChecklistTimeReply(i, w)
  \/ \E i \in 1..Len(tasks) : \E w \in BillWire : ChecklistBillReply(i, w)

Spec == Init /\ [][Next]_vars

\* ------------------------------------------------------------------------
\* The poll loop of a user who stays logged in (main.py lines 112-153 driven
\* by the QTimer of lines 207-209).  The start state is the one on_login_clicked
\* leaves after a successful login; no button is clicked afterwards.
\* ------------------------------------------------------------------------
InitLive ==
  /\ TOKEN = "tokA"
  /\ last_state = 0
  /\ window = [InitWindow EXCEPT !.user_role_label = "USER",
                                 !.user_state_label = TXT_LOGGED_IN]
  /\ tasks = <<>>
  /\ act = "LoginOk"
  /\ toasts = <<MSG_LOGIN_OK>>
  /\ reqs = <<>>
  /\ hist = NoHist
  /\ session = "tokA"
  /\ api_in = NoCall
  /\ api_out = NoResult

NextLive ==
  \/ TimerFire
  \/ \E i \in 1..Len(tasks) : TickStart(i)
  \/ \E i \in 1..Len(tasks) : \E w \in PreviewWire : TickPreviewReply(i, w)
  \/ \E i \in 1..Len(tasks) : \E w \in TimeWire : TickTimeReply(i, w)

\* The server answers preview_queue with NOTCHARGING and the call succeeds.
PreviewSucceedsNotCharging ==
  \E i \in 1..Len(tasks) : \E q \in QueueLens : \E id \in ChargeIds :
    TickPreviewReply(i, Envelope(AllKeys, 0, "", PreviewData(q, id, "NOTCHARGING")))

\* The time call of a tick that holds a NOTCHARGING payload succeeds.
TimeSucceedsAfterNotCharging ==
  \E i \in 1..Len(tasks) : \E dt \in DateTimes :
    /\ ~tasks[i].data.null
    /\ tasks[i].data.cur_state = "NOTCHARGING"
    /\ TickTimeReply(i, Envelope(AllKeys, 0, "", TimeData(dt)))

\* The QTimer keeps firing, the event loop runs every ready callback and
\* every call returns or raises (weak fairness); a call that is attempted
\* again and again eventually succeeds with the server reporting NOTCHARGING
\* (strong fairness: single attempts may fail).
FairLive ==
  /\ WF_vars(TimerFire)
  /\ WF_vars(\E i \in 1..Len(tasks) : TickStart(i))
  /\ WF_vars(\E i \in 1..Len(tasks) : \E w \in PreviewWire : TickPreviewReply(i, w))
  /\ WF_vars(\E i \in 1..Len(tasks) : \E w \in TimeWire : TickTimeReply(i, w))
  /\ SF_vars(PreviewSucceedsNotCharging)
  /\ SF_vars(TimeSucceedsAfterNotCharging)

SpecLive == InitLive /\ [][NextLive]_vars /\ FairLive

\* ========================================================================
\* Properties
\* ========================================================================
TickInFlight(i) == tasks[i].kind = "tick" /\ InFlight(tasks[i])

\* A tick that has issued a request always runs with a stored token: no
\* handler, logout included, runs between a tick's first line and its return.
InFlightTickHasToken ==
  \A i \in 1..Len(tasks) : TickInFlight(i) => TOKEN # ""

\* C1: two consecutive successful polls that observe the same variant never
\* both show the completion toast, and a successful poll that observes
\* NOTCHARGING right after a successful poll that observed NOTCHARGING shows
\* none (failed ticks in between do not count as polls).
C1_NoRepeatedNotification ==
  [][act' = "TickOk" =>
       /\ hist'.notes \in {0, 1}
       /\ hist.obs = hist'.obs => ~(hist.notes > 0 /\ hist'.notes > 0)
       /\ (hist.obs = "NOTCHARGING" /\ hist'.obs = "NOTCHARGING") =>
            hist'.notes = 0 /\ toasts' = <<>>]_vars

\* Two NOTCHARGING polls in a row, the first of which showed the toast.
C1_Witness ==
  /\ act = "TickOk"
  /\ hist.obs = "NOTCHARGING"
  /\ hist.prevNotes = 1 /\ hist.notes = 0

\* The observation a tick is compared with: that of the successful tick
\* before it, NOTCHARGING at process start.
PrecedingObs == IF hist.obs = "NONE" THEN "NOTCHARGING" ELSE hist.obs

\* C2: a successful tick shows the completion toast iff the successful tick
\* immediately before it observed CHARGING and it observes NOTCHARGING, and
\* then it shows exactly one.
C2_NotifyIffChargingEdge ==
  [][act' = "TickOk" =>
       hist'.notes = IF PrecedingObs = "CHARGING" /\ hist'.obs = "NOTCHARGING"
                       THEN 1 ELSE 0]_vars

\* C3: a tick that starts with an empty token issues no request, shows no
\* toast and leaves the token, last_state and every label as they were.
C3_UnauthenticatedTickIsNoOp ==
  [][(act' \in {"TickStart", "TickSkipped"} /\ TOKEN = "") =>
       /\ reqs' = <<>>
       /\ toasts' = <<>>
       /\ UNCHANGED <<TOKEN, last_state, window, hist>>]_vars

\* A tick was skipped after a logout, with an observation stored and labels
\* written by earlier ticks.
C3_Witness ==
  /\ act = "TickSkipped"
  /\ TOKEN = ""
  /\ last_state = 1
  /\ window.status_label = TXT_CHARGING

\* C4: a tick whose preview_queue call fails, or whose time call fails after
\* preview_queue succeeded, leaves last_state as it was; and the successful
\* tick that observes NOTCHARGING after a successful tick observed CHARGING,
\* with any number of failed ticks in between, shows the completion toast.
C4_FailedTickKeepsObservation ==
  [][/\ act' \in {"TickPreviewFailed", "TickTimeFailed"} => last_state' = last_state
     /\ (act' = "TickOk" /\ hist.obs = "CHARGING" /\ hist'.obs = "NOTCHARGING")
          => hist'.notes = 1]_vars

\* A tick failed at the time call while CHARGING was the stored observation.
C4_Witness ==
  /\ act = "TickTimeFailed"
  /\ hist.obs = "CHARGING"
  /\ last_state = 1
  /\ toasts # <<>>

\* C5: at most one tick is between its first request and its return.
C5_TicksNeverOverlap ==
  Cardinality({i \in 1..Len(tasks) : TickInFlight(i)}) <= 1

\* The timer fired while a tick was waiting for a reply: the new tick is
\* queued behind it.
C5_Witness ==
  \E i, j \in 1..Len(tasks) :
    /\ TickInFlight(i)
    /\ tasks[j].kind = "tick" /\ ~InFlight(tasks[j])
    /\ i < j

\* C7: a reply {code, message, data} with code == -1 ends in an ApiError whose
\* message is the reply's message and no payload; with any other code the
\* call returns the reply's data and raises nothing.
C7_EnvelopeDecoding ==
  LET w == api_in.wire
      r == api_out.result
  IN (api_in.method # "" /\ w.exc = "" /\ w.keys = AllKeys) =>
       IF w.code = -1
         THEN r.kind = "ApiError" /\ r.msg = w.message /\ r.data = NullData
         ELSE r.kind = "ok" /\ r.data = w.data /\ r.msg = ""

\* An application error reply was turned into an ApiError with its message.
C7_Witness ==
  /\ api_in.method = "POST"
  /\ api_in.wire.exc = "" /\ api_in.wire.keys = AllKeys
  /\ api_in.wire.code = -1 /\ api_in.wire.message = "msgA"
  /\ api_out.result.kind = "ApiError" /\ api_out.result.msg = "msgA"

\* C8: every call of api_get / api_post ends in a returned payload or in an
\* ApiError, whatever the transport raises and whatever body arrives.
C8_NoRawException ==
  api_in.method # "" => api_out.result.kind \in {"ok", "ApiError"}

\* The message each kind of transport failure must give.
KindMessage(e) ==
  IF e = "ConnectTimeout" THEN MSG_CONNECT_TIMEOUT
  ELSE IF e \in {"ConnectionError", "ProxyError", "SSLError"} THEN MSG_CONNECTION_ERROR
  ELSE IF e = "ReadTimeout" THEN MSG_READ_TIMEOUT
  ELSE IF e = "HTTPError" THEN MSG_HTTP_ERROR
  ELSE MSG_NETWORK_ERROR

\* C9: a connect timeout gives the connect-timeout message although it is
\* also a ConnectionError; a connection error, a read timeout and an HTTP
\* error give their own messages; every other exception gives the
\* network-error message.
C9_FailureKindMessages ==
  (api_in.method # "" /\ api_in.wire.exc # "") =>
     /\ api_out.result.kind = "ApiError"
     /\ api_out.result.msg = KindMessage(api_in.wire.exc)

\* A connect timeout was reported as such.
C9_Witness ==
  /\ api_in.wire.exc = "ConnectTimeout"
  /\ api_out.result.kind = "ApiError"
  /\ api_out.result.msg = MSG_CONNECT_TIMEOUT

\* C10: every request carries an Authorization header iff the session token
\* (that of the latest accepted login not followed by a logout) is non-empty,
\* and the header then carries that token.
C10_AuthorizationFollowsSession ==
  /\ TOKEN = session
  /\ \A k \in 1..Len(reqs) :
       reqs[k].auth = IF session # "" THEN <<"Bearer", session>> ELSE <<>>

\* A poll request carried the token of a login.
C10_Witness ==
  /\ Len(reqs) = 1
  /\ reqs[1].path = "/user/preview_queue"
  /\ reqs[1].auth = <<"Bearer", "tokA">>
  /\ session = "tokA"


\* C11: the token changes only in an accepted login, to the token of a user
\* account, and in a logout, to the empty string; a login that ends in an
\* ApiError or returns is_admin shows a message and leaves the token as it
\* was (so does one that ends in any other exception), and the token is never
\* an administrator's credential.
C11_TokenWrittenOnlyByLoginAndLogout ==
  [][/\ TOKEN' # TOKEN => act' \in {"LoginOk", "Logout"}
     /\ act' = "LoginOk" => TOKEN' \in Tokens \cup {""} /\ TOKEN' = session'
     /\ act' = "Logout" => TOKEN' = ""
     /\ act' \in {"LoginFailed", "LoginAdminRejected"} =>
          TOKEN' = TOKEN /\ Len(toasts') = 1
     /\ act' = "LoginRaised" => TOKEN' = TOKEN
     /\ TOKEN' \notin AdminTokens]_vars

\* An administrator's login was refused while a user's token was stored.
C11_Witness ==
  /\ act = "LoginAdminRejected"
  /\ TOKEN = "tokA"
  /\ toasts = <<MSG_USE_USER_ACCOUNT>>


\* ------------------------------------------------------------------------
\* C12: for every mode label read from the combo box, on_submit_clicked and
\* on_edit_request_clicked send charge_mode "F" when the label is exactly
\* the fast-charge label and "T" for every other label (the empty selection
\* included); no other code is ever sent.
\* ------------------------------------------------------------------------
C12_ModeCodeSent ==
  [][act' \in {"SubmitStart", "EditStart"} =>
       /\ Len(reqs') = 1
       /\ reqs'[1].method = "POST"
       /\ reqs'[1].path = (IF act' = "SubmitStart"
                             THEN "/user/submit_charging_request"
                             ELSE "/user/edit_charging_request")
       /\ reqs'[1].body[1][1] = "charge_mode"
       /\ reqs'[1].body[1][2] \in {"F", "T"}
       /\ \E i \in 1..Len(tasks) :
            /\ tasks[i].pc = "start" /\ tasks'[i].pc = "call"
            /\ tasks'[i].text \in ModeLabels
            /\ (reqs'[1].body[1][2] = "F") <=> (tasks'[i].text = LABEL_FAST)]_vars

C12_Witness ==
  /\ act = "EditStart"
  /\ Len(reqs) = 1
  /\ reqs[1].body[1] = <<"charge_mode", "T">>
  /\ \E i \in 1..Len(tasks) :
       tasks[i].kind = "edit" /\ tasks[i].pc = "call" /\ tasks[i].text = ""

\* ------------------------------------------------------------------------
\* C13: nothing is retried.  Every handler sends the requests of its plan in
\* order, each at most once; a tick asks for the time only in the step that
\* received a successful preview; a step that ends a handler (failure or
\* success) sends nothing, so a failed tick is followed by no request of its
\* own.
\* ------------------------------------------------------------------------
Plan(kind) ==
  CASE kind = "tick" -> <<"/user/preview_queue", "/time">>
    [] kind = "login" -> <<"/login">>
    [] kind = "logout" -> <<>>
    [] kind = "register" -> <<"/user/register">>
    [] kind = "submit" -> <<"/user/submit_charging_request">>
    [] kind = "edit" -> <<"/user/edit_charging_request">>
    [] kind = "end" -> <<"/user/end_charging_request">>
    [] kind = "checklist" -> <<"/time", "/user/query_bill">>

IsPrefix(s, t) == Len(s) <= Len(t) /\ \A k \in 1..Len(s) : s[k] = t[k]

EndingSteps ==
  {"TickSkipped", "TickPreviewFailed", "TickTimeFailed", "TickRenderRaised",
   "TickOk", "LoginFailed", "LoginRaised", "LoginAdminRejected", "LoginOk",
   "Logout", "RegisterFailed", "RegisterRaised", "RegisterOk",
   "SubmitFailed", "SubmitRaised", "SubmitOk", "EditFailed", "EditRaised",
   "EditOk", "EndFailed", "EndRaised", "EndOk", "ChecklistTimeFailed",
   "ChecklistBillFailed", "ChecklistRaised", "ChecklistOk"}

C13_NoRetry ==
  [][/\ Len(reqs') <= 1
     /\ \A i \in 1..Len(tasks') : IsPrefix(tasks'[i].sent, Plan(tasks'[i].kind))
     /\ act' \in EndingSteps => reqs' = <<>> /\ Len(tasks') = Len(tasks) - 1
     /\ reqs' # <<>> =>
          /\ Len(tasks') = Len(tasks)
          /\ \E i \in 1..Len(tasks) :
               /\ tasks'[i].sent = Append(tasks[i].sent, reqs'[1].path)
               /\ \A j \in 1..Len(tasks) : j # i => tasks'[j] = tasks[j]
          /\ reqs'[1].path = "/time" => act' \in {"TickPreviewOk", "ChecklistStart"}
          /\ reqs'[1].path = "/user/preview_queue" => act' = "TickStart"]_vars

C13_Witness ==
  /\ act = "TickTimeFailed"
  /\ reqs = <<>>
  /\ \A i \in 1..Len(tasks) : tasks[i].sent = <<>>


\* ------------------------------------------------------------------------
\* C14: after every successful tick the stored observation is the variant
\* that tick observed, for each of the six variants.  The program stores the
\* observation in last_state, which can tell CHARGING (1) from the rest (0),
\* so the statement reads: after a successful tick last_state is 1 exactly
\* when that tick observed CHARGING.
\* ------------------------------------------------------------------------
C14_StoredObservationIsLatestVariant ==
  act = "TickOk" => (last_state = 1 <=> hist.obs = "CHARGING")

\* ------------------------------------------------------------------------
\* C15: after every successful tick the queue length, request id, server
\* time and status labels all show that tick's responses: the queue label
\* is blank for -1 and the number otherwise, the request id label equals the
\* reported charge_id (the empty one included), the status label is the
\* text of the reported variant; no label keeps an earlier value.
\* ------------------------------------------------------------------------
C15_LabelsShowLatestTick ==
  act = "TickOk" =>
    /\ window.queue_position_label =
         (IF hist.seen.queue_len = -1 THEN <<>>
          ELSE <<"ahead", hist.seen.queue_len, "people">>)
    /\ window.request_id_label = hist.seen.charge_id
    /\ window.time_label = hist.now
    /\ window.status_label = StatusText(hist.seen.cur_state, "")


\* ------------------------------------------------------------------------
\* C16: liveness.  While the user stays logged in, the timer keeps firing,
\* and calls eventually succeed with the server reporting NOTCHARGING, a
\* successful tick that observed CHARGING is eventually followed by a
\* successful tick that shows the completion toast; failed ticks in between
\* delay it and do not lose it.
\* ------------------------------------------------------------------------
C16_CompletionEventuallyNotified ==
  (act = "TickOk" /\ hist.obs = "CHARGING")
    ~> (act = "TickOk" /\ hist.notes = 1 /\ toasts = <<MSG_CHARGE_DONE>>)

C16_Witness ==
  /\ act = "TickOk"
  /\ toasts = <<MSG_CHARGE_DONE>>
  /\ hist.obs = "NOTCHARGING" /\ hist.notes = 1
  /\ last_state = 0
  /\ TOKEN = "tokA"


\* ------------------------------------------------------------------------
\* C17: last_state is sticky.  A successful tick that observes CHARGING sets
\* it to 1; it keeps its value through failed ticks, through successful
\* ticks that observe WAITINGSTAGE1, WAITINGSTAGE2, CHANGEMODEREQUEUE or
\* FAULTREQUEUE (which show no completion toast) and through every step that
\* is not a successful tick; a successful tick that observes NOTCHARGING
\* while it is 1 shows the completion toast and resets it to 0.
\* ------------------------------------------------------------------------
PassThroughVariants ==
  {"WAITINGSTAGE1", "WAITINGSTAGE2", "CHANGEMODEREQUEUE", "FAULTREQUEUE"}

C17_LastStateSticky ==
  [][/\ act' # "TickOk" => last_state' = last_state
     /\ (act' = "TickOk" /\ hist'.obs = "CHARGING") => last_state' = 1
     /\ (act' = "TickOk" /\ hist'.obs \in PassThroughVariants) =>
          last_state' = last_state /\ toasts' = <<>>
     /\ (act' = "TickOk" /\ hist'.obs = "NOTCHARGING" /\ last_state = 1) =>
          toasts' = <<MSG_CHARGE_DONE>> /\ last_state' = 0
     /\ (act' = "TickOk" /\ hist'.obs = "NOTCHARGING" /\ last_state = 0) =>
          toasts' = <<>> /\ last_state' = 0]_vars

C17_Witness ==
  /\ act = "TickOk"
  /\ hist.obs = "FAULTREQUEUE"
  /\ last_state = 1
  /\ toasts = <<>>

\* ------------------------------------------------------------------------
\* C18: last_state is always 0 or 1, and completion toasts never outnumber
\* the successful ticks that observed CHARGING: a tick shows at most one
\* completion toast, and only if a successful tick has observed CHARGING
\* since the previous completion toast (or since the start), whatever ticks,
\* failures, logins and logouts come in between.
\* ------------------------------------------------------------------------
C18_NotificationsBoundedByCharging ==
  [][/\ last_state \in {0, 1} /\ last_state' \in {0, 1}
     /\ Len(SelectSeq(toasts', IsCompletion)) <= 1
     /\ (\E k \in 1..Len(toasts') : IsCompletion(toasts'[k])) =>
          /\ act' = "TickOk"
          /\ hist.armed
          /\ ~hist'.armed]_vars

C18_Witness ==
  /\ act = "TickOk"
  /\ hist.notes = 1 /\ hist.prevNotes = 0
  /\ ~hist.armed
  /\ last_state = 0

\* ------------------------------------------------------------------------
\* C19: on_logout_clicked sends no request and changes only TOKEN (to the
\* empty string) and the role and state labels; last_state keeps its value
\* through logout and through every step of a login, so the value stored
\* before logout is the one the first successful tick after a later login
\* reads.
\* ------------------------------------------------------------------------
LoginSteps ==
  {"ClickLogin", "ClickLogout", "LoginStart", "LoginFailed", "LoginRaised",
   "LoginAdminRejected", "LoginOk"}

C19_LogoutFrame ==
  [][/\ act' = "Logout" =>
          /\ reqs' = <<>>
          /\ TOKEN' = ""
          /\ last_state' = last_state
          /\ hist' = hist
          /\ window' = [window EXCEPT !.user_role_label = TXT_ROLE_NONE,
                                      !.user_state_label = TXT_LOGGED_OUT]
     /\ act' \in LoginSteps => last_state' = last_state /\ hist' = hist]_vars

C19_Witness ==
  /\ act = "Logout"
  /\ TOKEN = ""
  /\ last_state = 1
  /\ hist.obs = "CHARGING"
  /\ window.status_label = TXT_CHARGING

====
